---------------------------- MODULE Spec2Model ----------------------------
(***************************************************************************)
(* Model of the go-content-encoding middleware (package contentencoding).  *)
(*                                                                         *)
(* Decode(opts...) builds a net/http middleware that, for every request    *)
(* whose method is neither GET nor HEAD, splits the Content-Encoding       *)
(* header, walks the tokens from the last to the first, replaces r.Body by *)
(* a decompressing reader for each token it knows, and then sets the       *)
(* response's Accept-Encoding header and calls the next handler.           *)
(*                                                                         *)
(* A Go string is a sequence of one-character strings, so that splitting,  *)
(* joining, replacing and sorting are computed and not assumed.            *)
(*                                                                         *)
(* The repository holds two copies of Decode.  The model follows the one   *)
(* its tests exercise, which negotiates Accept-Encoding; the older copy    *)
(* (contentencoding.go) has the same method check, loop and tokenizer and  *)
(* ends with next.ServeHTTP without touching Accept-Encoding.              *)
(*                                                                         *)
(* The brotli, gzip and zstd libraries are outside the repository: a       *)
(* decompressor is modelled by what the handler can see of it, whether its *)
(* constructor returned an error and what reading the new body gives.      *)
(***************************************************************************)
EXTENDS Naturals, Sequences, FiniteSets

VARIABLES
    cfg,              \* the config built by Decode: decoders, errHandler
    pc,               \* position of the handler: idle, serve, loop, done
    method,           \* r.Method
    contentEncoding,  \* r.Header.Get("Content-Encoding")
    applied,          \* the encodings the client applied to the payload, in order
    body,             \* r.Body
    body0,            \* r.Body as the request arrived
    respAE,           \* w.Header()["Accept-Encoding"]: the list of values
    respAE0,          \* the same as the request arrived
    status,           \* status written to w (0: nothing written yet)
    values,           \* the local values of the handler
    i,                \* the loop index of the handler (1-based, 0: loop over)
    calls             \* history of the calls the handler made

vars == <<cfg, pc, method, contentEncoding, applied, body, body0, respAE,
          respAE0, status, values, i, calls>>

-----------------------------------------------------------------------------
(* Bounds of the model. *)

\* longest raw header value the tokenizer is run on by itself
MaxLen == 4
\* most tokens in a Content-Encoding header of a request
MaxTokens == 2
\* most custom decoders passed to WithDecoder
MaxDecoders == 2
\* most tokens in an Accept-Encoding value set by an earlier middleware
MaxPrior == 2
\* most options passed to Decode
MaxOpts == 2

-----------------------------------------------------------------------------
(* Strings. *)

\* the characters the model uses, in byte order
Chars == <<"\t", " ", ",", "-", "b", "c", "d", "e", "f", "g", "i", "m", "n",
           "o", "p", "r", "s", "t", "u", "x", "y", "z">>

Ord(c) == CHOOSE k \in 1..Len(Chars) : Chars[k] = c

\* Go's < on strings: bytewise lexicographic
RECURSIVE StrLess(_, _)
StrLess(a, b) ==
    IF b = <<>> THEN FALSE
    ELSE IF a = <<>> THEN TRUE
    ELSE IF Head(a) = Head(b) THEN StrLess(Tail(a), Tail(b))
    ELSE Ord(Head(a)) < Ord(Head(b))

Range(s) == { s[k] : k \in 1..Len(s) }

\* all sequences over S of length at most n
RECURSIVE SeqsUpTo(_, _)
SeqsUpTo(S, n) ==
    IF n = 0 THEN { <<>> }
    ELSE LET shorter == SeqsUpTo(S, n - 1)
         IN  shorter \cup { Append(s, x) : s \in shorter, x \in S }

BR       == <<"b", "r">>
GZIP     == <<"g", "z", "i", "p">>
XGZIP    == <<"x", "-", "g", "z", "i", "p">>
ZSTD     == <<"z", "s", "t", "d">>
IDENTITY == <<"i", "d", "e", "n", "t", "i", "t", "y">>
EMPTY    == <<>>
CUSTOM   == <<"c", "u", "s", "t", "o", "m">>
DEFLATE  == <<"d", "e", "f">>

\* strings.NewReplacer(" ", "").Replace
RECURSIVE noSpaceMutTab(_)
noSpaceMutTab(s) ==
    IF s = <<>> THEN <<>>
    ELSE IF Head(s) \in {" ", "\t"} THEN noSpaceMutTab(Tail(s))
    ELSE <<Head(s)>> \o noSpaceMutTab(Tail(s))

RECURSIVE noSpace(_)
noSpace(s) ==
    IF s = <<>> THEN <<>>
    ELSE IF Head(s) = " " THEN noSpace(Tail(s))
    ELSE <<Head(s)>> \o noSpace(Tail(s))

\* strings.Split(s, ","): always at least one element
RECURSIVE StringsSplit(_)
StringsSplit(s) ==
    IF \A k \in 1..Len(s) : s[k] # "," THEN << s >>
    ELSE LET c == CHOOSE k \in 1..Len(s) :
                      s[k] = "," /\ \A j \in 1..(k - 1) : s[j] # ","
         IN  << SubSeq(s, 1, c - 1) >> \o StringsSplit(SubSeq(s, c + 1, Len(s)))

splitNoEmptyCheck(raw) == StringsSplit(noSpace(raw))

splitEncodingHeader(raw) ==
    IF raw = <<>> THEN <<>> ELSE StringsSplit(noSpace(raw))

\* strings.Join(ss, ", ")
RECURSIVE joinWithCommaSpace(_)
joinWithCommaSpace(ss) ==
    IF ss = <<>> THEN <<>>
    ELSE IF Len(ss) = 1 THEN ss[1]
    ELSE ss[1] \o <<",", " ">> \o joinWithCommaSpace(Tail(ss))

\* sort.Strings applied to the elements of a strset
RECURSIVE SortStrings(_)
SortStrings(S) ==
    IF S = {} THEN <<>>
    ELSE LET m == CHOOSE x \in S : \A y \in S \ {x} : StrLess(x, y)
         IN  <<m>> \o SortStrings(S \ {m})

mergeNoSort(raw, adds) == joinWithCommaSpace(splitEncodingHeader(raw) \o adds)

mergeAcceptEncoding(raw, adds) ==
    LET current == splitEncodingHeader(raw)
    IN  IF Len(current) = 0 THEN joinWithCommaSpace(adds)
        ELSE joinWithCommaSpace(SortStrings(Range(current) \cup Range(adds)))

-----------------------------------------------------------------------------
(* Configuration: Option, config, Decoder, WithDecoder, WithErrorHandler. *)

\* A Decoder is its Encoding and its Handler.  Two Handlers are modelled:
\*   "strip"  decodes the codec named by Encoding: it fails unless the body is
\*            readable and its outermost layer is that codec's;
\*   "suffix" is the Handler of the repository's test and example: it reads
\*            the whole body and replaces it by the bytes read plus a suffix.
Decoder(e, h) == [Encoding |-> e, Handler |-> h]

\* the decoders of the configurations that exercise the decoding loop ...
DecoderUniverse ==
    { Decoder(CUSTOM, "strip"), Decoder(CUSTOM, "suffix"), Decoder(GZIP, "suffix") }

\* ... and of those that exercise the negotiation: one sorts before "gzip",
\* one after "zstd", one has the name of a built-in
DecoderUniverseNegotiate ==
    { Decoder(CUSTOM, "strip"), Decoder(<<"z", "z">>, "strip"), Decoder(GZIP, "suffix") }

WithErrorHandler(eh) ==
    [opt |-> "errHandler", eh |-> IF eh = "nil" THEN "DefaultErrorHandler" ELSE eh]

WithDecoder(decoders) == [opt |-> "decoders", decoders |-> decoders]

defaults == << WithErrorHandler("nil") >>

OptionUniverse(D) ==
    { WithErrorHandler("nil"), WithErrorHandler("custom") }
        \cup { WithDecoder(ds) : ds \in SeqsUpTo(D, MaxDecoders) }

\* opt(cfg)
ApplyOption(c, o) ==
    IF o.opt = "errHandler" THEN [c EXCEPT !.errHandler = o.eh]
    ELSE [c EXCEPT !.decoders = o.decoders]

RECURSIVE ApplyOptions(_, _)
ApplyOptions(c, opts) ==
    IF opts = <<>> THEN c
    ELSE ApplyOptions(ApplyOption(c, Head(opts)), Tail(opts))

\* cfg := new(config); for _, opt := range append(defaults(), opts...)
NewConfig(opts) ==
    ApplyOptions([errHandler |-> "none", decoders |-> <<>>], defaults \o opts)

encodingsNoCustom(c) == << BR, GZIP, ZSTD >>

\* encodings := []string{"br", "gzip", "zstd"} plus every decoder's Encoding
encodings(c) ==
    << BR, GZIP, ZSTD >> \o [k \in 1..Len(c.decoders) |-> c.decoders[k].Encoding]

acceptEncoding(c) == joinWithCommaSpace(encodings(c))

-----------------------------------------------------------------------------
(* Bodies.  A body is the payload under a stack of layers, innermost first; *)
(* a layer <<"enc", e>> is the output of the encoder of codec e, a layer    *)
(* <<"sfx", e>> is a suffix appended by a "suffix" Handler.  corrupt means  *)
(* that reading the body returns an error.                                  *)

Body(marks) == [marks |-> marks, corrupt |-> FALSE]

Top(b) == IF b.marks = <<>> THEN <<"none">> ELSE b.marks[Len(b.marks)]

Pop(b) == [b EXCEPT !.marks = SubSeq(b.marks, 1, Len(b.marks) - 1)]

Readable(b, codec) == ~b.corrupt /\ Top(b) = <<"enc", codec>>

\* the codec a client applies for an encoding name
CodecOf(e) == IF e = XGZIP THEN GZIP ELSE e

\* the body of a payload encoded with the encodings es, in that order
RECURSIVE Encode(_)
Encode(es) ==
    IF es = <<>> THEN <<>>
    ELSE LET e == es[Len(es)]
             inner == Encode(SubSeq(es, 1, Len(es) - 1))
         IN  IF e \in {EMPTY, IDENTITY} THEN inner
             ELSE Append(inner, <<"enc", CodecOf(e)>>)

\* decompressBrotli: brotli.NewReader never fails, a bad stream shows on read
decompressBrotli(b) ==
    IF Readable(b, BR) THEN Pop(b) ELSE [b EXCEPT !.corrupt = TRUE]

\* decompressGzip: gzip.NewReader reads the stream's header
decompressGzip(b) ==
    IF Readable(b, GZIP) THEN [err |-> FALSE, body |-> Pop(b)]
    ELSE [err |-> TRUE, body |-> b]

\* decompressZstd: zstd.NewReader may fail (its options, the stream), or may
\* leave a bad stream to show on read; the library decides
decompressZstd(b) ==
    { [err |-> TRUE, body |-> b] }
        \cup IF Readable(b, ZSTD) THEN { [err |-> FALSE, body |-> Pop(b)] }
             ELSE { [err |-> FALSE, body |-> [b EXCEPT !.corrupt = TRUE]] }

\* decoder.Handler(w, r)
Handle(d, b) ==
    IF d.Handler = "strip"
    THEN IF Readable(b, d.Encoding) THEN [err |-> FALSE, body |-> Pop(b)]
         ELSE [err |-> TRUE, body |-> b]
    ELSE IF b.corrupt THEN [err |-> TRUE, body |-> b]
         ELSE [err |-> FALSE,
               body |-> [b EXCEPT !.marks = Append(@, <<"sfx", d.Encoding>>)]]

-----------------------------------------------------------------------------
(* The calls the handler makes, in order. *)

DecodeCall(by, k, err) == [op |-> "decode", by |-> by, k |-> k, err |-> err]

ErrHandlerCall(cause) == [cause EXCEPT !.op = "errHandler"]

NextCall == [op |-> "next", by |-> "next", k |-> 0, err |-> FALSE]

\* cfg.errHandler(w, r, err): DefaultErrorHandler is http.Error(w, _, 400),
\* the custom handler is the one of the tests, w.WriteHeader(999)
ErrorStatus(c) == IF c.errHandler = "DefaultErrorHandler" THEN 400 ELSE 999

runDecodersFirstMatch(decoders, v, k, b, log) ==
    LET ks == { j \in 1..Len(decoders) : decoders[j].Encoding = v }
    IN  IF ks = {} THEN [err |-> FALSE, body |-> b, calls |-> log]
        ELSE LET j == CHOOSE x \in ks : \A y \in ks : x <= y
                 r == Handle(decoders[j], b)
             IN  [err |-> r.err, body |-> r.body,
                  calls |-> Append(log, DecodeCall("custom", j, r.err))]

runDecodersUnknownFails(decoders, v, k, b, log) ==
    [err |-> TRUE, body |-> b, calls |-> Append(log, DecodeCall("custom", 0, TRUE))]

\* for _, decoder := range cfg.decoders { if v == decoder.Encoding { ... } },
\* from the k-th decoder on
RECURSIVE runDecoders(_, _, _, _, _)
runDecoders(decoders, v, k, b, log) ==
    IF k > Len(decoders) THEN [err |-> FALSE, body |-> b, calls |-> log]
    ELSE IF v = decoders[k].Encoding
         THEN LET r == Handle(decoders[k], b)
                  log1 == Append(log, DecodeCall("custom", k, r.err))
              IN  IF r.err THEN [err |-> TRUE, body |-> r.body, calls |-> log1]
                  ELSE runDecoders(decoders, v, k + 1, r.body, log1)
         ELSE runDecoders(decoders, v, k + 1, b, log)

-----------------------------------------------------------------------------
(* Requests. *)

Methods == { "GET", "HEAD", "POST" }

isGetOnly(m) == m = "GET"

\* r.Method == http.MethodGet || r.Method == http.MethodHead
isGetOrHead(m) == m = "GET" \/ m = "HEAD"

TokenUniverse == { BR, GZIP, XGZIP, ZSTD, IDENTITY, CUSTOM, DEFLATE }

\* what a client applied of the encodings es it declares: all of them, or
\* only the outermost ones, or none
AppliedOf(es) == { SubSeq(es, k, Len(es)) : k \in 1..(Len(es) + 1) }

\* Accept-Encoding as an earlier middleware left it: no header, or one value
PriorTokens == { GZIP, DEFLATE, EMPTY }

PriorHeaders(n) ==
    { <<>> } \cup { << joinWithCommaSpace(ts) >> : ts \in SeqsUpTo(PriorTokens, n) }

\* requests that exercise the decoding loop
RequestsOf(m, es) ==
    { [method |-> m, declared |-> es, applied |-> a, prior |-> h] :
        a \in IF m = "POST" THEN AppliedOf(es) ELSE { es },
        h \in { <<>>, << GZIP >> } }

Requests ==
    UNION { RequestsOf(m, es) : m \in Methods, es \in SeqsUpTo(TokenUniverse, MaxTokens) }

\* requests that exercise the Accept-Encoding negotiation
RequestsNegotiate ==
    { [method |-> m, declared |-> es, applied |-> es, prior |-> h] :
        m \in { "HEAD", "POST" }, es \in SeqsUpTo(TokenUniverse, 1),
        h \in PriorHeaders(MaxPrior) }

\* raw header values for the tokenizer
RawStrings == SeqsUpTo({ "z", ",", " ", "\t" }, MaxLen)

\* http.Header.Get: the first value, "" when there is none
HeaderGet(h) == IF h = <<>> THEN <<>> ELSE h[1]

-----------------------------------------------------------------------------
(* The handler returned by Decode(opts...)(next). *)

Configs(D) == { NewConfig(opts) : opts \in SeqsUpTo(OptionUniverse(D), MaxOpts) }

\* the state between two requests
Idle ==
    /\ pc = "idle"
    /\ method = "GET"
    /\ contentEncoding = <<>>
    /\ applied = <<>>
    /\ body = Body(<<>>)
    /\ body0 = Body(<<>>)
    /\ respAE = <<>>
    /\ respAE0 = <<>>
    /\ status = 0
    /\ values = <<>>
    /\ i = 0
    /\ calls = <<>>

Init == cfg \in Configs(DecoderUniverse) /\ Idle

InitNegotiate == cfg \in Configs(DecoderUniverseNegotiate) /\ Idle

\* the server hands a request and a response writer to the middleware
Arrive(R) ==
    /\ pc = "idle"
    /\ \E q \in R :
        /\ method' = q.method
        /\ contentEncoding' = joinWithCommaSpace(q.declared)
        /\ applied' = q.applied
        /\ body' = Body(Encode(q.applied))
        /\ body0' = Body(Encode(q.applied))
        /\ respAE' = q.prior
        /\ respAE0' = q.prior
    /\ status' = 0
    /\ values' = <<>>
    /\ i' = 0
    /\ calls' = <<>>
    /\ pc' = "serve"
    /\ UNCHANGED cfg

ArriveDecode == Arrive(Requests)

ArriveNegotiate == Arrive(RequestsNegotiate)

\* if GET or HEAD { next.ServeHTTP(w, r); return }
PassThrough ==
    /\ pc = "serve"
    /\ isGetOrHead(method)
    /\ calls' = Append(calls, NextCall)
    /\ pc' = "done"
    /\ UNCHANGED <<cfg, method, contentEncoding, applied, body, body0, respAE,
                   respAE0, status, values, i>>

\* values := splitEncodingHeader(r.Header.Get("Content-Encoding")); i := len(values) - 1
Split ==
    /\ pc = "serve"
    /\ ~isGetOrHead(method)
    /\ values' = splitEncodingHeader(contentEncoding)
    /\ i' = Len(values')
    /\ pc' = "loop"
    /\ UNCHANGED <<cfg, method, contentEncoding, applied, body, body0, respAE,
                   respAE0, status, calls>>

loopTokenForward(vs, n) == vs[Len(vs) - n + 1]

\* for i := len(values) - 1; i >= 0; i-- { v := values[i] }: the n-th token,
\* n counting down from len(values) to 1
loopToken(vs, n) == vs[n]

InLoop == pc = "loop" /\ i >= 1

\* a decoder succeeded: the loop goes on with the token before
Continue(b, log) ==
    /\ body' = b
    /\ calls' = log
    /\ i' = i - 1
    /\ UNCHANGED <<cfg, pc, method, contentEncoding, applied, body0, respAE,
                   respAE0, status, values>>

\* cfg.errHandler(w, r, err); return
Fail(log) ==
    /\ calls' = Append(log, ErrHandlerCall(log[Len(log)]))
    /\ status' = ErrorStatus(cfg)
    /\ pc' = "done"
    /\ UNCHANGED <<cfg, method, contentEncoding, applied, body, body0, respAE,
                   respAE0, values, i>>

\* case "br"
DecodeBr ==
    /\ InLoop
    /\ loopToken(values, i) = BR
    /\ Continue(decompressBrotli(body), Append(calls, DecodeCall("br", 0, FALSE)))

DecodeGzipIgnoreErr ==
    /\ InLoop
    /\ loopToken(values, i) \in { GZIP, XGZIP }
    /\ LET r == decompressGzip(body)
       IN  Continue(r.body, Append(calls, DecodeCall("gzip", 0, r.err)))

\* case "gzip", "x-gzip"
DecodeGzip ==
    /\ InLoop
    /\ loopToken(values, i) \in { GZIP, XGZIP }
    /\ LET r == decompressGzip(body)
           log == Append(calls, DecodeCall("gzip", 0, r.err))
       IN  IF r.err THEN Fail(log) ELSE Continue(r.body, log)

DecodeZstdNoReturn ==
    /\ InLoop
    /\ loopToken(values, i) = ZSTD
    /\ \E r \in decompressZstd(body) :
        LET log == Append(calls, DecodeCall("zstd", 0, r.err))
        IN  IF r.err THEN Continue(r.body, Append(log, ErrHandlerCall(log[Len(log)])))
            ELSE Continue(r.body, log)

\* case "zstd"
DecodeZstd ==
    /\ InLoop
    /\ loopToken(values, i) = ZSTD
    /\ \E r \in decompressZstd(body) :
        LET log == Append(calls, DecodeCall("zstd", 0, r.err))
        IN  IF r.err THEN Fail(log) ELSE Continue(r.body, log)

\* case "", "identity"
SkipIdentity ==
    /\ InLoop
    /\ loopToken(values, i) \in { EMPTY, IDENTITY }
    /\ Continue(body, calls)

\* default: the custom decoders
DecodeCustom ==
    /\ InLoop
    /\ loopToken(values, i) \notin { BR, GZIP, XGZIP, ZSTD, EMPTY, IDENTITY }
    /\ LET r == runDecoders(cfg.decoders, loopToken(values, i), 1, body, calls)
       IN  IF r.err THEN Fail(r.calls) ELSE Continue(r.body, r.calls)

FinishAlwaysDefault ==
    /\ pc = "loop"
    /\ i = 0
    /\ respAE' = << acceptEncoding(cfg) >>
    /\ calls' = Append(calls, NextCall)
    /\ pc' = "done"
    /\ UNCHANGED <<cfg, method, contentEncoding, applied, body, body0, respAE0,
                   status, values, i>>

\* after the loop: set Accept-Encoding, then next.ServeHTTP(w, r)
Finish ==
    /\ pc = "loop"
    /\ i = 0
    /\ LET current == HeaderGet(respAE)
       IN  respAE' = << IF current = <<>> THEN acceptEncoding(cfg)
                        ELSE mergeAcceptEncoding(current, encodings(cfg)) >>
    /\ calls' = Append(calls, NextCall)
    /\ pc' = "done"
    /\ UNCHANGED <<cfg, method, contentEncoding, applied, body, body0, respAE0,
                   status, values, i>>

\* the handler has returned and the server is ready for the next request
Return ==
    /\ pc = "done"
    /\ pc' = "idle"
    /\ method' = "GET"
    /\ contentEncoding' = <<>>
    /\ applied' = <<>>
    /\ body' = Body(<<>>)
    /\ body0' = Body(<<>>)
    /\ respAE' = <<>>
    /\ respAE0' = <<>>
    /\ status' = 0
    /\ values' = <<>>
    /\ i' = 0
    /\ calls' = <<>>
    /\ UNCHANGED cfg

Handler ==
    \/ Return
    \/ PassThrough
    \/ Split
    \/ DecodeBr
    \/ DecodeGzip
    \/ DecodeZstd
    \/ SkipIdentity
    \/ DecodeCustom
    \/ Finish

Next == ArriveDecode \/ Handler

Spec == Init /\ [][Next]_vars

NextNegotiate == ArriveNegotiate \/ Handler

SpecNegotiate == InitNegotiate /\ [][NextNegotiate]_vars

-----------------------------------------------------------------------------
(* The tokenizer by itself, on every raw value up to MaxLen characters. *)

InitSplit ==
    /\ cfg = NewConfig(<<>>)
    /\ pc = "raw"
    /\ method = "POST"
    /\ contentEncoding \in RawStrings
    /\ applied = <<>>
    /\ body = Body(<<>>)
    /\ body0 = Body(<<>>)
    /\ respAE = <<>>
    /\ respAE0 = <<>>
    /\ status = 0
    /\ values = <<>>
    /\ i = 0
    /\ calls = <<>>

Tokenize ==
    /\ pc = "raw"
    /\ values' = splitEncodingHeader(contentEncoding)
    /\ pc' = "tokens"
    /\ UNCHANGED <<cfg, method, contentEncoding, applied, body, body0, respAE,
                   respAE0, status, i, calls>>

SpecSplit == InitSplit /\ [][Tokenize]_vars

-----------------------------------------------------------------------------
(* Vocabulary of the properties. *)

Idx(op) == { k \in 1..Len(calls) : calls[k].op = op }

Failed == { k \in Idx("decode") : calls[k].err }

NextInvoked == Idx("next") # {}

Plain == Body(<<>>)

BuiltIn == { BR, GZIP, XGZIP, ZSTD, IDENTITY, EMPTY }

\* the codec a decode call decodes
CallCodec(c) ==
    IF c.by = "br" THEN BR
    ELSE IF c.by = "gzip" THEN GZIP
    ELSE IF c.by = "zstd" THEN ZSTD
    ELSE cfg.decoders[c.k].Encoding

\* the codecs of the decode calls that succeeded so far, in call order
DecodedCodecs ==
    LET ks == Idx("decode") \ Failed
        nth(n) == CHOOSE k \in ks : Cardinality({ j \in ks : j <= k }) = n
    IN  [n \in 1..Cardinality(ks) |-> CallCodec(calls[nth(n)])]

IsPrefix(s, t) == Len(s) <= Len(t) /\ s = SubSeq(t, 1, Len(s))

-----------------------------------------------------------------------------
\* C1: when a decode step fails (gzip, x-gzip, zstd or a custom Handler
\* returning an error), the configured error handler is called exactly once,
\* with that error, as the very next and last call of the handler: the loop
\* stops at the failing token (the tokens before it in the header are not
\* attempted), next is not called and Accept-Encoding is left as it was.
C1_FailStops ==
    \A k \in Failed :
        /\ pc = "done"
        /\ Len(calls) = k + 1
        /\ calls[k + 1] = [op |-> "errHandler", by |-> calls[k].by,
                           k |-> calls[k].k, err |-> TRUE]
        /\ Idx("errHandler") = { k + 1 }
        /\ Idx("next") = {}
        /\ respAE = respAE0
        /\ status = (IF cfg.errHandler = "DefaultErrorHandler" THEN 400 ELSE 999)
        /\ i >= 1
        /\ CodecOf(values[i]) = CallCodec(calls[k])
        /\ Cardinality(Idx("decode") \ { j \in Idx("decode") : calls[j].by = "custom" })
               <= Len(values) - i + 1

\* a failure at the last token of a two-token header: the first is not attempted
C1_Witness ==
    /\ pc = "done"
    /\ Failed # {}
    /\ Len(values) = 2
    /\ i = 2
    /\ Len(calls) = 2
    /\ status = 999

\* the encodings a client may apply so that the middleware can undo them: the
\* built-in ones, and those for which decoders are registered that all decode
\* that codec
Decodable(e) ==
    \/ e \in BuiltIn
    \/ /\ \E k \in 1..Len(cfg.decoders) : cfg.decoders[k].Encoding = e
       /\ \A k \in 1..Len(cfg.decoders) :
            cfg.decoders[k].Encoding = e => cfg.decoders[k].Handler = "strip"

WellEncoded ==
    /\ ~(method \in { "GET", "HEAD" })
    /\ contentEncoding = joinWithCommaSpace(applied)
    /\ body0 = Body(Encode(applied))
    /\ \A k \in 1..Len(applied) : Decodable(applied[k])

\* C2: when the body was encoded with the encodings the Content-Encoding
\* header lists, in the order it lists them, the decoders are applied one at
\* a time in the reverse of that order (the n-th layer undone is the n-th
\* from the last), and the body handed to the next handler has every layer
\* undone: it reads as the original payload.
C2_ReverseOrderRoundTrip ==
    WellEncoded =>
        /\ \A n \in 1..Len(DecodedCodecs) :
             <<"enc", DecodedCodecs[n]>> = Encode(applied)[Len(Encode(applied)) - n + 1]
        /\ (pc = "done" /\ NextInvoked) =>
             /\ body = Plain
             /\ Len(DecodedCodecs) = Len(Encode(applied))

\* two different layers, both undone, the payload handed on
C2_Witness ==
    /\ WellEncoded
    /\ pc = "done"
    /\ NextInvoked
    /\ Len(applied) = 2
    /\ applied[1] = CUSTOM
    /\ applied[2] = BR
    /\ body = Plain

\* the text ", e1, e2, ..." for the Encodings of the decoders ds
RECURSIVE CustomTail(_)
CustomTail(ds) ==
    IF ds = <<>> THEN <<>>
    ELSE CustomTail(SubSeq(ds, 1, Len(ds) - 1))
             \o <<",", " ">> \o ds[Len(ds)].Encoding

Decoded == ~(method \in { "GET", "HEAD" }) /\ pc = "done" /\ NextInvoked

\* C3: when all decode steps succeeded and the response had no
\* Accept-Encoding header, the next handler is called with Accept-Encoding
\* set to "br, gzip, zstd" followed by every custom decoder's Encoding in
\* registration order, each after ", ": unsorted, and a function of the
\* configuration alone.
C3_DefaultAcceptEncoding ==
    (Decoded /\ respAE0 = <<>>) =>
        respAE = << <<"b", "r", ",", " ", "g", "z", "i", "p", ",", " ",
                      "z", "s", "t", "d">> \o CustomTail(cfg.decoders) >>

\* two custom decoders, registered in descending order of their names
C3_Witness ==
    /\ Decoded
    /\ respAE0 = <<>>
    /\ Len(cfg.decoders) = 2
    /\ cfg.decoders[1].Encoding = <<"z", "z">>
    /\ cfg.decoders[2].Encoding = CUSTOM
    /\ contentEncoding = <<>>

\* the value is the tokens of the earlier value and the supported encodings,
\* each once, ascending, joined with ", "
MergedSorted ==
    /\ Len(respAE) = 1
    /\ LET toks == splitEncodingHeader(respAE[1])
       IN  /\ respAE[1] = joinWithCommaSpace(toks)
           /\ \A k \in 1..(Len(toks) - 1) : StrLess(toks[k], toks[k + 1])
           /\ Range(toks) =
                  Range(splitEncodingHeader(respAE0[1])) \cup { BR, GZIP, ZSTD }
                      \cup { cfg.decoders[k].Encoding : k \in 1..Len(cfg.decoders) }

\* C4 as stated: whenever the response already carries an Accept-Encoding
\* header, the middleware writes the sorted union without duplicates.
C4_AnyPriorHeader == (Decoded /\ respAE0 # <<>>) => MergedSorted

\* C4 as amended: whenever the response already carries an Accept-Encoding
\* header whose value is not empty, the middleware writes the tokens of that
\* value united with the supported encodings, each distinct token once, in
\* ascending byte order, joined with ", ".
C4_NonEmptyPriorHeader ==
    (Decoded /\ respAE0 # <<>> /\ respAE0[1] # <<>>) => MergedSorted

\* an earlier value with a duplicate and an encoding the server does not
\* support, merged with a configuration with two custom decoders
C4_Witness ==
    /\ Decoded
    /\ respAE0 = << joinWithCommaSpace(<< GZIP, DEFLATE >>) >>
    /\ Len(cfg.decoders) = 2
    /\ cfg.decoders[1].Encoding = <<"z", "z">>
    /\ cfg.decoders[2].Encoding = CUSTOM
    /\ respAE = << joinWithCommaSpace(<< BR, CUSTOM, DEFLATE, GZIP, ZSTD, <<"z", "z">> >>) >>

\* C5: a GET or HEAD request goes to the next handler as it arrived: no
\* decoder and no error handler is called, the body and the response's
\* Accept-Encoding are unchanged, nothing is written, and the
\* Content-Encoding header is not even split.
C5_GetHeadUntouched ==
    method \in { "GET", "HEAD" } =>
        /\ body = body0
        /\ respAE = respAE0
        /\ status = 0
        /\ values = <<>>
        /\ Idx("decode") = {}
        /\ Idx("errHandler") = {}
        /\ pc = "done" => calls = << NextCall >>

\* a HEAD request with a gzip body, declared, and an earlier Accept-Encoding
C5_Witness ==
    /\ method = "HEAD"
    /\ pc = "done"
    /\ contentEncoding = GZIP
    /\ body = Body(<< <<"enc", GZIP>> >>)
    /\ respAE = << GZIP >>
    /\ calls = << NextCall >>

\* the registered decoders whose Encoding is v
Matching(v) == { k \in 1..Len(cfg.decoders) : cfg.decoders[k].Encoding = v }

CustomStep == pc = "loop" /\ i >= 1 /\ values[i] \notin BuiltIn

\* C6 as stated: for a token that is not a built-in name only the first
\* registered decoder with that Encoding has its Handler called.
C6_FirstMatchOnly ==
    \A k \in Idx("decode") :
        calls[k].by = "custom" =>
            \A j \in Matching(cfg.decoders[calls[k].k].Encoding) : calls[k].k <= j

\* C6 as amended: for a token that is not a built-in name the custom decoder
\* list is searched in registration order, and every registered decoder whose
\* Encoding equals the token has its Handler called, in registration order,
\* until one of them returns an error: the search does not stop at the first
\* match.
C6_EveryMatchInOrder ==
    [][ CustomStep =>
          LET M == Matching(values[i])
              new == SubSeq(calls', Len(calls) + 1, Len(calls'))
              ds == { n \in 1..Len(new) : new[n].op = "decode" }
          IN  /\ \A n \in ds :
                    /\ ds = 1..Cardinality(ds)
                    /\ new[n].by = "custom"
                    /\ new[n].k \in M
                    /\ Cardinality({ j \in M : j <= new[n].k }) = n
                    /\ n < Cardinality(ds) => ~new[n].err
              /\ Cardinality(ds) < Cardinality(M) =>
                    /\ ds # {}
                    /\ new[Cardinality(ds)].err
       ]_vars

\* both of two decoders registered for "custom" were called for one token
C6_Witness ==
    /\ Len(values) = 1
    /\ \E a, b \in Idx("decode") :
        /\ calls[a].by = "custom" /\ calls[a].k = 1
        /\ calls[b].by = "custom" /\ calls[b].k = 2
        /\ a < b
        /\ cfg.decoders[1].Encoding = cfg.decoders[2].Encoding

GzipZstd == <<"g", "z", "i", "p", ",", " ", "z", "s", "t", "d">>

\* the built-in decoders called so far, in call order
CalledBys ==
    LET ks == Idx("decode")
        nth(n) == CHOOSE k \in ks : Cardinality({ j \in ks : j <= k }) = n
    IN  [n \in 1..Cardinality(ks) |-> calls[nth(n)].by]

\* C7 as stated: for Content-Encoding "gzip, zstd" the gzip decoder is
\* applied first and then the zstd decoder.
C7_GzipThenZstd ==
    (~(method \in { "GET", "HEAD" }) /\ contentEncoding = GzipZstd) =>
        IsPrefix(CalledBys, << "gzip", "zstd" >>)

\* C7 as amended: for Content-Encoding "gzip, zstd" the zstd decoder is
\* applied first and then the gzip decoder, the reverse of the header's order;
\* both have been applied when the next handler is called.
C7_ZstdThenGzip ==
    (~(method \in { "GET", "HEAD" }) /\ contentEncoding = GzipZstd) =>
        /\ IsPrefix(CalledBys, << "zstd", "gzip" >>)
        /\ NextInvoked => CalledBys = << "zstd", "gzip" >>

\* the request of the repository's test: a payload gzipped, then zstd
\* compressed
C7_Witness ==
    /\ contentEncoding = GzipZstd
    /\ body0 = Body(<< <<"enc", GZIP>>, <<"enc", ZSTD>> >>)
    /\ pc = "done"
    /\ NextInvoked
    /\ body = Plain
    /\ CalledBys = << "zstd", "gzip" >>

\* ss joined with ","
RECURSIVE JoinComma(_)
JoinComma(ss) ==
    IF Len(ss) = 1 THEN ss[1]
    ELSE JoinComma(SubSeq(ss, 1, Len(ss) - 1)) \o <<",">> \o ss[Len(ss)]

NotSpace(c) == c # " "

NotWhitespace(c) == c \notin { " ", "\t" }

\* the tokens are the pieces between the commas of the raw value with the
\* characters that fail Keep(_) removed; the empty value has no tokens
TokensOf(Keep(_)) ==
    IF contentEncoding = <<>> THEN values = <<>>
    ELSE /\ Len(values) >= 1
         /\ JoinComma(values) = SelectSeq(contentEncoding, Keep)
         /\ \A k \in 1..Len(values) : \A n \in 1..Len(values[k]) :
                values[k][n] # "," /\ Keep(values[k][n])

\* C8 as stated: splitEncodingHeader removes all whitespace, splits on ","
\* and returns the tokens in order, none for the empty value; no token
\* contains whitespace.
C8_AllWhitespaceRemoved == pc = "tokens" => TokensOf(NotWhitespace)

\* C8 as amended: splitEncodingHeader removes every space character (U+0020)
\* and no other whitespace (a tab stays), splits on "," and returns the tokens
\* in order; the empty value yields no token, any other value at least one;
\* no token contains a space or a comma.
C8_SpacesRemoved == pc = "tokens" => TokensOf(NotSpace)

\* "z ," followed by a tab: two tokens, the space removed, the tab kept
C8_Witness ==
    /\ pc = "tokens"
    /\ contentEncoding = <<"z", " ", ",", "\t">>
    /\ values = << <<"z">>, <<"\t">> >>

Unknown(v) == v \notin BuiltIn /\ Matching(v) = {}

\* C9: a token that is no built-in name and no registered decoder's Encoding
\* is skipped: that step calls nothing (no decoder, no error handler), leaves
\* the body and the response as they are, and the loop goes on with the
\* token before it; when no step fails the next handler is called.
C9_UnknownSkipped ==
    /\ [][ (pc = "loop" /\ i >= 1 /\ Unknown(values[i])) =>
              /\ pc' = "loop"
              /\ i' = i - 1
              /\ calls' = calls
              /\ body' = body
              /\ respAE' = respAE
              /\ status' = status
         ]_vars
    /\ []((pc = "done" /\ Failed = {}) => NextInvoked)

\* "br, def": the unknown token is skipped, then brotli is applied, then the
\* next handler is called
C9_Witness ==
    /\ values = << BR, DEFLATE >>
    /\ Unknown(DEFLATE)
    /\ pc = "done"
    /\ NextInvoked
    /\ CalledBys = << "br" >>
    /\ status = 0

\* C10: for every request exactly one of the next handler and the error
\* handler is called, exactly once, when the handler is done and not before:
\* the next handler when no decode step failed, the error handler when one
\* did.
C10_ExactlyOneHandler ==
    LET n == Cardinality(Idx("next"))
        e == Cardinality(Idx("errHandler"))
    IN  /\ pc = "done" => n + e = 1
        /\ pc # "done" => n + e = 0
        /\ n = 1 => Failed = {}
        /\ e = 1 => Failed # {}

\* zstd failed after brotli was applied: the error handler alone was called
C10_Witness ==
    /\ pc = "done"
    /\ CalledBys = << "br", "zstd" >>
    /\ Idx("errHandler") = { 3 }
    /\ Idx("next") = {}
    /\ Len(calls) = 3

=============================================================================
